---------------------------- MODULE Spec2Model ----------------------------
(***************************************************************************)
(* Model of src/vs/platform/actions/common/commandsExtensionPoint.ts:      *)
(* the validators of a 'commands' contribution, the global registry        *)
(* 'commands' filled and frozen by the extension-point handler, and the    *)
(* CommandAction that activates an extension before dispatching a command. *)
(*                                                                         *)
(* The specifications share the variables:                                 *)
(*   Spec            the extension-point handler and the registry          *)
(*   SpecAction      invocations of one CommandAction; FairSpecAction adds *)
(*                   that the callbacks of a settled promise do run        *)
(*   SpecValidation  the private validators isValidWhen and isValidWhere   *)
(*                   applied to a JavaScript value                         *)
(***************************************************************************)
EXTENDS Naturals, Sequences, FiniteSets, TLC

VARIABLES
    commands,      \* the exported array 'commands' (line 216)
    frozen,        \* whether Object.freeze(commands) has run (line 237)
    runs,          \* how many times the handler has been invoked
    batch,         \* the 'extensions' argument of the latest handler run
    errors,        \* errors[i]: what batch[i].collector received in that run
    outcome,       \* "none" | "returned" | "threw": how the latest run ended
    before,        \* the registry as it was when the latest run began
    startFrozen,   \* whether the registry was frozen when the latest run began
    handed,        \* how much of MaxDeclared the batches so far have used
    action,        \* the Command a CommandAction wraps, with its activation event
    inv,           \* the invocations of the action's _actionCallback
    activations,   \* the calls extensionService.activateByEvent received
    dispatches,    \* the calls keybindingService.executeCommand received
    arg,           \* SpecValidation: the value handed to a validator
    fn,            \* SpecValidation: the validator that was applied
    ret            \* SpecValidation: what it returned and reported

vars == <<commands, frozen, runs, batch, errors, outcome, before, startFrozen,
          handed, action, inv, activations, dispatches, arg, fn, ret>>

registryVars == <<commands, frozen, runs, batch, errors, outcome, before, startFrozen, handed>>
actionVars == <<action, inv, activations, dispatches>>
validationVars == <<arg, fn, ret>>

(***************************************************************************)
(* Bounds of the model.                                                    *)
(***************************************************************************)
MaxExtensions == 2    \* extensions in one batch
MaxDeclared == 2      \* commands declared over all runs of the handler, an
                      \* extension that declares an empty array counting for one
MaxRuns == 2          \* runs of the handler
MaxInvocations == 2   \* invocations of one CommandAction
MaxItems == 2         \* length of a 'when' / 'where' array in SpecValidation

(***************************************************************************)
(* JavaScript values.  A value is a record tagged by 't'; typeof is        *)
(* computed from the tag as the language defines it.                       *)
(***************************************************************************)
Undefined == [t |-> "undefined"]
Null == [t |-> "null"]
Str(s) == [t |-> "string", s |-> s]
Num(n) == [t |-> "number", n |-> n]
Bool(b) == [t |-> "boolean", b |-> b]
Arr(items) == [t |-> "array", items |-> items]
\* a ResourceFilter literal {language: ...}
Filter(language) == [t |-> "object", language |-> Str(language)]
\* a string holding a path: root is "/" for an absolute path, segs its segments
PathStr(root, segs) == [t |-> "string", root |-> root, segs |-> segs]
\* an icon literal {dark, light}
IconObj(dark, light) == [t |-> "object", dark |-> dark, light |-> light]

typeof(v) ==
    CASE v.t = "null" -> "object"
      [] v.t = "array" -> "object"
      [] OTHER -> v.t

isArray(v) == v.t = "array"

\* ToBoolean, for '!candidate' and 'candidate.category && ...'
Truthy(v) ==
    CASE v.t \in {"undefined", "null"} -> FALSE
      [] v.t = "string" -> IF "s" \in DOMAIN v THEN v.s # "" ELSE TRUE
      [] v.t = "number" -> v.n # 0
      [] v.t = "boolean" -> v.b
      [] OTHER -> TRUE

\* property read o.f of a non-null value: undefined when o has no such property
Get(o, f) == IF f \in DOMAIN o /\ f # "t" THEN o[f] ELSE Undefined

(***************************************************************************)
(* The messages handed to user.collector.error (the source's backquotes    *)
(* are written as quotes).                                                 *)
(***************************************************************************)
MsgNonEmpty == "expected non-empty value."
MsgRequireString(p) == "property '" \o p \o "' is mandatory and must be of type 'string'"
MsgOptString(p) == "property '" \o p \o "' can be omitted or must be of type 'string'"
MsgOptWhere == "property 'where' can be omitted or must be a valid enum value"
MsgRequireFilter == "property 'when' is mandatory and must be a string or like '{language, scheme, pattern}'"
MsgOptIcon == "property 'icon' can be omitted or must be either a string or a literal like '{dark, light}'"

Locations == {"editor/primary", "editor/secondary", "explorer/context"}

\* what a validator returns and what it reported to the collector meanwhile
Ret(ok, errs) == [ok |-> ok, errs |-> errs]

\* the index of the first FALSE of a sequence of booleans, or 0: where a loop
\* that returns at the first failing element stops
FirstFailing(oks) ==
    IF \E i \in 1..Len(oks) : ~oks[i]
    THEN CHOOSE i \in 1..Len(oks) : ~oks[i] /\ \A j \in 1..(i - 1) : oks[j]
    ELSE 0

RECURSIVE isValidWhere(_)
isValidWhere(where) ==
    IF isArray(where)
    THEN LET bad == FirstFailing([k \in 1..Len(where.items) |-> isValidWhere(where.items[k]).ok])
         IN  IF bad = 0 THEN Ret(TRUE, <<>>)
             ELSE Ret(FALSE, isValidWhere(where.items[bad]).errs)
    ELSE IF ~(where.t = "string" /\ "s" \in DOMAIN where /\ where.s \in Locations)
         THEN Ret(FALSE, <<MsgOptWhere>>)
         ELSE Ret(TRUE, <<>>)

RECURSIVE isValidWhen(_)
isValidWhen(when) ==
    IF isArray(when)
    THEN LET bad == FirstFailing([k \in 1..Len(when.items) |-> isValidWhen(when.items[k]).ok])
         IN  IF bad # 0
             THEN Ret(FALSE, isValidWhen(when.items[bad]).errs)
             \* the loop ends without a return: control falls to the error below
             ELSE Ret(FALSE, <<MsgRequireFilter>>)
    ELSE IF typeof(when) = "string" \/ typeof(when) = "object"
         THEN Ret(TRUE, <<>>)
         ELSE Ret(FALSE, <<MsgRequireFilter>>)

(***************************************************************************)
(* join of vs/base/common/paths: the parts are split at the separators,    *)
(* empty and "." segments are dropped, ".." removes the segment before it, *)
(* and the root of the first part is kept.                                 *)
(***************************************************************************)
RECURSIVE normalizeSegments(_, _)
normalizeSegments(done, rest) ==
    IF rest = <<>> THEN done
    ELSE LET part == Head(rest) IN
         IF part = "." \/ part = ""
         THEN normalizeSegments(done, Tail(rest))
         ELSE IF part = ".." /\ done # <<>> /\ done[Len(done)] # ".."
         THEN normalizeSegments(SubSeq(done, 1, Len(done) - 1), Tail(rest))
         ELSE normalizeSegments(Append(done, part), Tail(rest))

join(first, second) ==
    PathStr(first.root, normalizeSegments(<<>>, first.segs \o second.segs))

isThemableIcon(thing) ==
    /\ typeof(thing) = "object"
    /\ Truthy(thing)
    /\ typeof(Get(thing, "dark")) = "string"
    /\ typeof(Get(thing, "light")) = "string"

\* what isValidIcon and isValidCommand do: return (ok, with the errors reported
\* and the candidate as the call left it) or throw a TypeError
Returned(ok, errs, cand) == [threw |-> FALSE, ok |-> ok, errs |-> errs, cand |-> cand]
Threw(cand) == [threw |-> TRUE, ok |-> FALSE, errs |-> <<>>, cand |-> cand]

isValidIcon(icon) ==
    IF typeof(icon) = "undefined" THEN Returned(TRUE, <<>>, icon)
    ELSE IF typeof(icon) = "string" THEN Returned(TRUE, <<>>, icon)
    ELSE IF typeof(icon) = "object"
         THEN \* icon.dark is read next: of null, that is a TypeError
              IF icon.t = "null" THEN Threw(icon)
              ELSE IF /\ typeof(Get(icon, "dark")) = "string"
                      /\ typeof(Get(icon, "light")) = "string"
                   THEN Returned(TRUE, <<>>, icon)
                   ELSE Returned(FALSE, <<MsgOptIcon>>, icon)
    ELSE Returned(FALSE, <<MsgOptIcon>>, icon)

\* a slip of lines 108-109: the light path is made from the dark one
normalizeIconSwapped(candidate, extensionFolderPath) ==
    LET icon == candidate.icon IN
    IF typeof(icon) = "string"
    THEN [candidate EXCEPT !.icon = join(extensionFolderPath, icon)]
    ELSE IF isThemableIcon(icon)
    THEN [candidate EXCEPT !.icon = [icon EXCEPT
              !.dark = join(extensionFolderPath, icon.dark),
              !.light = join(extensionFolderPath, icon.dark)]]
    ELSE candidate

\* "make icon paths absolute": the candidate after lines 104-110
normalizeIcon(candidate, extensionFolderPath) ==
    LET icon == candidate.icon IN
    IF typeof(icon) = "string"
    THEN [candidate EXCEPT !.icon = join(extensionFolderPath, icon)]
    ELSE IF isThemableIcon(icon)
    THEN [candidate EXCEPT !.icon = [icon EXCEPT
              !.dark = join(extensionFolderPath, icon.dark),
              !.light = join(extensionFolderPath, icon.light)]]
    ELSE candidate

isValidCommand(candidate, extensionFolderPath) ==
    IF ~Truthy(candidate)
    THEN Returned(FALSE, <<MsgNonEmpty>>, candidate)
    ELSE IF typeof(Get(candidate, "command")) # "string"
    THEN Returned(FALSE, <<MsgRequireString("command")>>, candidate)
    ELSE IF typeof(Get(candidate, "title")) # "string"
    THEN Returned(FALSE, <<MsgRequireString("title")>>, candidate)
    ELSE IF Truthy(Get(candidate, "category")) /\ typeof(Get(candidate, "category")) # "string"
    THEN Returned(FALSE, <<MsgOptString("category")>>, candidate)
    ELSE LET icon == isValidIcon(Get(candidate, "icon")) IN
         IF icon.threw THEN Threw(candidate)
         ELSE IF ~icon.ok THEN Returned(FALSE, icon.errs, candidate)
         \* neither isValidWhere nor isValidWhen is called
         ELSE Returned(TRUE, <<>>, normalizeIcon(candidate, extensionFolderPath))

(***************************************************************************)
(* The registry and the handler of the 'commands' extension point.         *)
(***************************************************************************)
\* a registry that was never frozen: push always appends
pushIgnoringFreeze(array, isFrozen, command) ==
    [threw |-> FALSE, array |-> Append(array, command)]

\* unshift in place of push: the command is put in front
pushFront(array, isFrozen, command) ==
    IF isFrozen THEN [threw |-> TRUE, array |-> array]
    ELSE [threw |-> FALSE, array |-> <<command>> \o array]

\* Array.prototype.push on commands: a TypeError once the array is frozen
push(array, isFrozen, command) ==
    IF isFrozen THEN [threw |-> TRUE, array |-> array]
    ELSE [threw |-> FALSE, array |-> Append(array, command)]

\* the state one handler run works on
RunState(cmds, isFrozen, errs) ==
    [commands |-> cmds, frozen |-> isFrozen, errors |-> errs, threw |-> FALSE]

\* one collector shared by the batch: every error goes to the first extension's
handleCommandSharedCollector(st, command, u, extensionFolderPath) ==
    LET valid == isValidCommand(command, extensionFolderPath) IN
    IF valid.threw THEN [st EXCEPT !.threw = TRUE]
    ELSE LET reported == [st EXCEPT !.errors[1] = @ \o valid.errs] IN
         IF ~valid.ok THEN reported
         ELSE LET pushed == push(st.commands, st.frozen, valid.cand) IN
              [reported EXCEPT !.commands = pushed.array, !.threw = pushed.threw]

\* handleCommand(command, user), user being extension number u of the batch
handleCommand(st, command, u, extensionFolderPath) ==
    LET valid == isValidCommand(command, extensionFolderPath) IN
    IF valid.threw THEN [st EXCEPT !.threw = TRUE]
    ELSE LET reported == [st EXCEPT !.errors[u] = @ \o valid.errs] IN
         IF ~valid.ok THEN reported
         ELSE LET pushed == push(st.commands, st.frozen, valid.cand) IN
              [reported EXCEPT !.commands = pushed.array, !.threw = pushed.threw]

\* the commands one extension declares, in the order the handler visits them
declared(extension) ==
    IF isArray(extension.value) THEN extension.value.items ELSE <<extension.value>>

\* the loops of the handler from command k of extension u on; an exception
\* ends them
RECURSIVE handleFrom(_, _, _, _)
handleFrom(st, extensions, u, k) ==
    IF st.threw \/ u > Len(extensions) THEN st
    ELSE IF k > Len(declared(extensions[u])) THEN handleFrom(st, extensions, u + 1, 1)
    ELSE handleFrom(handleCommand(st, declared(extensions[u])[k], u,
                                  extensions[u].description.extensionFolderPath),
                    extensions, u, k + 1)

\* the handler: every extension's commands, then Object.freeze(commands)
handler(cmds, isFrozen, extensions) ==
    LET st == handleFrom(RunState(cmds, isFrozen, [u \in 1..Len(extensions) |-> <<>>]),
                         extensions, 1, 1)
    IN  [st EXCEPT !.frozen = IF st.threw THEN isFrozen ELSE TRUE]

(***************************************************************************)
(* The inputs of the handler: what the extensions' manifests declare.      *)
(***************************************************************************)
Cmd(command, title, category, where, when, icon) ==
    [t |-> "object", command |-> command, title |-> title, category |-> category,
     where |-> where, when |-> when, icon |-> icon]

Plain(command, title) == Cmd(Str(command), Str(title), Undefined, Undefined, Undefined, Undefined)

FooBar == Plain("foo.bar", "Bar")
ExtGo ==
    Cmd(Str("ext.go"), Str("Go"), Str("Ext"), Str("editor/primary"), Str("typescript"),
        PathStr("", <<"icons", "go.png">>))
ExtTheme ==
    [Plain("ext.theme", "Theme") EXCEPT
        !.icon = IconObj(PathStr("", <<"..", "shared", "dark.svg">>),
                         PathStr("", <<".", "light.svg">>))]
MissingId == [Plain("", "missing id") EXCEPT !.command = Undefined]
NumericId == [Plain("", "Numeric") EXCEPT !.command = Num(42)]
MissingTitle == [Plain("ext.untitled", "") EXCEPT !.title = Undefined]
BadCategory == [Plain("ext.cat", "Cat") EXCEPT !.category = Num(5)]
NullIcon == [Plain("ext.nullicon", "Null icon") EXCEPT !.icon = Null]
HalfIcon ==
    [Plain("ext.halficon", "Half icon") EXCEPT
        !.icon = [t |-> "object", dark |-> PathStr("", <<"dark.svg">>)]]
BadWhere ==
    [Plain("ext.where", "Where") EXCEPT
        !.where = Arr(<<Str("editor/secondary"), Str("statusbar")>>)]
BadWhereScalar == [Plain("ext.where1", "Where") EXCEPT !.where = Str("statusbar")]
BadWhen == [Plain("ext.when", "When") EXCEPT !.when = Num(42)]
BadWhenItem == [Plain("ext.when1", "When") EXCEPT !.when = Arr(<<Str("typescript"), Bool(TRUE)>>)]

Candidates ==
    {Null, MissingId, NumericId, MissingTitle, BadCategory, FooBar, ExtGo, ExtTheme,
     NullIcon, HalfIcon, BadWhere, BadWhereScalar, BadWhen, BadWhenItem}

\* the install folders of the extensions of a batch, by their place in it
ExtensionFolders ==
    <<PathStr("/", <<"ext", "acme">>), PathStr("/", <<"ext", "beta">>),
      PathStr("/", <<"opt", "gamma", "ext">>)>>

Folder(u) == ExtensionFolders[((u - 1) % Len(ExtensionFolders)) + 1]

\* an IExtensionPointUser; its collector is errors[u]
User(u, value) == [description |-> [extensionFolderPath |-> Folder(u)], value |-> value]

\* A batch is drawn as a shape and the candidates that fill it.  A shape gives,
\* for each extension, whether its value is one Command or an array of Commands,
\* and how many commands that makes.
Kinds(n) ==
    (IF n >= 1 THEN {[array |-> FALSE, n |-> 1]} ELSE {})
    \cup {[array |-> TRUE, n |-> k] : k \in 0..n}

RECURSIVE Sum(_)
Sum(sizes) == IF sizes = <<>> THEN 0 ELSE Head(sizes) + Sum(Tail(sizes))

Total(shape) == Sum([u \in 1..Len(shape) |-> shape[u].n])

\* what a shape uses of MaxDeclared
Cost(shape) == Sum([u \in 1..Len(shape) |-> IF shape[u].n = 0 THEN 1 ELSE shape[u].n])

\* the shapes of the batches that declare at most n commands together
Shapes(n) ==
    {shape \in UNION {[1..e -> Kinds(n)] : e \in 1..MaxExtensions} :
        Cost(shape) <= n}

\* the batch of the given shape whose commands are, in order, those of fill
Batch(shape, fill) ==
    [u \in 1..Len(shape) |->
        LET skip == Total(SubSeq(shape, 1, u - 1)) IN
        User(u, IF shape[u].array
                THEN Arr([k \in 1..shape[u].n |-> fill[skip + k]])
                ELSE fill[skip + 1])]

InitRegistry ==
    /\ commands = <<>>
    /\ frozen = FALSE
    /\ runs = 0
    /\ batch = <<>>
    /\ errors = <<>>
    /\ outcome = "none"
    /\ before = <<>>
    /\ startFrozen = FALSE
    /\ handed = 0

\* no CommandAction, no validator call
NoAction == [t |-> "undefined"]
IdleAction ==
    /\ action = NoAction
    /\ inv = <<>>
    /\ activations = <<>>
    /\ dispatches = <<>>

IdleValidation ==
    /\ arg = Undefined
    /\ fn = "none"
    /\ ret = Ret(FALSE, <<>>)

\* the extension point invokes the handler with a batch of extensions
RunHandler(extensions, cost) ==
    LET st == handler(commands, frozen, extensions) IN
    /\ runs < MaxRuns
    /\ runs' = runs + 1
    /\ handed' = handed + cost
    /\ batch' = extensions
    /\ startFrozen' = frozen
    /\ commands' = st.commands
    /\ frozen' = st.frozen
    /\ errors' = st.errors
    /\ before' = commands
    /\ outcome' = IF st.threw THEN "threw" ELSE "returned"
    /\ UNCHANGED <<actionVars, validationVars>>

Init == InitRegistry /\ IdleAction /\ IdleValidation

Next ==
    \E shape \in Shapes(MaxDeclared - handed) :
        \E fill \in [1..Total(shape) -> Candidates] : RunHandler(Batch(shape, fill), Cost(shape))

Spec == Init /\ [][Next]_vars

(***************************************************************************)
(* Properties of the registry and the handler (specification Spec).        *)
(***************************************************************************)
\* the commands of a batch in arrival order: extension order, then array order
RECURSIVE ArrivalFrom(_, _)
ArrivalFrom(extensions, u) ==
    IF u > Len(extensions) THEN <<>>
    ELSE LET value == extensions[u].value
             own == IF value.t = "array" THEN value.items ELSE <<value>>
         IN  [k \in 1..Len(own) |->
                 [user |-> u, folder |-> extensions[u].description.extensionFolderPath,
                  command |-> own[k]]]
             \o ArrivalFrom(extensions, u + 1)

Arrival(extensions) == ArrivalFrom(extensions, 1)

Verdict(item) == isValidCommand(item.command, item.folder)

\* the commands of a batch isValidCommand was called for: all of them, up to the
\* first call that ends the run with an exception
Visited(extensions, wasFrozen) ==
    LET all == Arrival(extensions)
        Goes(item) == ~(Verdict(item).threw \/ (wasFrozen /\ Verdict(item).ok))
        stop == FirstFailing([k \in 1..Len(all) |-> Goes(all[k])])
    IN  IF stop = 0 THEN all ELSE SubSeq(all, 1, stop)

\* those of them isValidCommand returned true for
ReturnedTrue(extensions, wasFrozen) ==
    LET Ok(item) == Verdict(item).ok
    IN  SelectSeq(Visited(extensions, wasFrozen), Ok)

AsRegistered(items) == [k \in 1..Len(items) |-> Verdict(items[k]).cand]

Ran == outcome # "none"

\* C1 as stated: after every run of the handler the registry holds, after what it
\* held before, exactly the candidates isValidCommand returned true for in that
\* run, in arrival order.
C1_EveryBatchRegistered ==
    Ran => commands = before \o AsRegistered(ReturnedTrue(batch, startFrozen))

\* C1, amended: after a run of the handler that began with the registry not yet
\* frozen, the registry holds, after what it held before, exactly the candidates
\* isValidCommand returned true for, in arrival order (extension order, then
\* array order); and every entry of the registry is a candidate isValidCommand
\* returns true for, never one it returns false for.
C1_OpenBatchRegistered ==
    /\ (Ran /\ ~startFrozen) =>
          commands = before \o AsRegistered(ReturnedTrue(batch, FALSE))
    /\ \A k \in 1..Len(commands) :
          \E c \in Candidates, u \in 1..MaxExtensions :
              isValidCommand(c, Folder(u)) = Returned(TRUE, <<>>, commands[k])

\* two extensions of one batch each got a command into the registry
C1_Witness ==
    /\ outcome = "returned" /\ ~startFrozen /\ before = <<>>
    /\ Len(batch) = 2 /\ Len(commands) = 2
    /\ commands[1].command # commands[2].command

\* C2: once the registry is frozen it stays frozen, and every later step, a
\* further run of the handler with valid commands included, leaves its content
\* and order as they were.
C2_FrozenStaysUnchanged == [][frozen => (frozen' /\ commands' = commands)]_vars

\* a run on the frozen, non-empty registry reached a valid command and its push
C2_Witness ==
    /\ startFrozen /\ frozen /\ outcome = "threw"
    /\ commands # <<>>
    /\ ReturnedTrue(batch, TRUE) # <<>>

RECURSIVE WhereWithinLocations(_)
WhereWithinLocations(where) ==
    IF where.t = "array"
    THEN \A k \in 1..Len(where.items) : WhereWithinLocations(where.items[k])
    ELSE where.t = "string" /\ where.s \in Locations

\* C5 as stated: every 'where' present on a registry entry contains only values
\* of the closed Location set, a candidate with any other 'where' (scalar or
\* array element) having been rejected by isValidCommand.
C5_WhereOnlyLocations ==
    \A k \in 1..Len(commands) :
        commands[k].where = Undefined \/ WhereWithinLocations(commands[k].where)

\* C6 as stated: a malformed candidate never throws or aborts the batch; when
\* the handler ends, every valid candidate of the batch is in the registry.
C6_MalformedNeverAborts ==
    (Ran /\ ~startFrozen) =>
        /\ outcome = "returned"
        /\ \A k \in 1..Len(Arrival(batch)) :
              Verdict(Arrival(batch)[k]).ok =>
                  \E j \in 1..Len(commands) : commands[j] = Verdict(Arrival(batch)[k]).cand

\* a non-empty candidate whose 'command' is missing or not a string
LacksCommand(candidate) == Truthy(candidate) /\ typeof(Get(candidate, "command")) # "string"

RECURSIVE ErrorsOf(_, _)
ErrorsOf(items, u) ==
    IF items = <<>> THEN <<>>
    ELSE (IF Head(items).user = u THEN Verdict(Head(items)).errs ELSE <<>>)
         \o ErrorsOf(Tail(items), u)

\* C7: for a candidate whose 'command' is missing or not a string, isValidCommand
\* returns false and reports exactly one error, the one that names 'command', to
\* the collector of the extension that declared it; every collector holds
\* exactly the errors of its own extension's candidates, and no such candidate
\* is in the registry.  (A null candidate is rejected one check earlier, with
\* the message MsgNonEmpty.)
C7_MissingCommandOneError ==
    /\ \A k \in 1..Len(Arrival(batch)) :
          LacksCommand(Arrival(batch)[k].command) =>
              Verdict(Arrival(batch)[k]) =
                  Returned(FALSE, <<MsgRequireString("command")>>, Arrival(batch)[k].command)
    /\ \A u \in 1..Len(batch) : errors[u] = ErrorsOf(Visited(batch, startFrozen), u)
    /\ \A k \in 1..Len(commands) : ~LacksCommand(commands[k])

\* the second extension declared a command without 'command', the first a valid one
C7_Witness ==
    /\ outcome = "returned" /\ Len(batch) = 2
    /\ batch[1].value = FooBar /\ batch[2].value = MissingId
    /\ commands = <<FooBar>>
    /\ errors = <<(<<>>), <<MsgRequireString("command")>>>>

\* the declared icon resolved against the install root of its extension
ResolvedIcon(icon, root) ==
    IF icon.t = "string" THEN join(root, icon)
    ELSE IF icon.t = "object" THEN IconObj(join(root, icon.dark), join(root, icon.light))
    ELSE icon

\* C8: every entry a batch adds to the registry has the icon its declaration
\* gave, resolved once against the install root R of the declaring extension:
\* join(R, p) for a string p, {dark: join(R, d), light: join(R, l)} for a
\* ThemableIcon, absent when absent.  With root /ext/acme the icon
\* icons/go.png is registered as /ext/acme/icons/go.png.
C8_IconResolvedOnce ==
    /\ (Ran /\ ~startFrozen) =>
          LET items == ReturnedTrue(batch, FALSE) IN
          /\ Len(commands) = Len(before) + Len(items)
          /\ \A j \in 1..Len(items) :
                commands[Len(before) + j].icon =
                    ResolvedIcon(items[j].command.icon, items[j].folder)
    /\ (Ran /\ ~startFrozen /\ before = <<>> /\ batch # <<>> /\ batch[1].value = ExtGo) =>
          commands[1].icon = PathStr("/", <<"ext", "acme", "icons", "go.png">>)

\* two extensions with different roots registered a string and a themable icon
C8_Witness ==
    /\ outcome = "returned" /\ Len(batch) = 2 /\ Len(commands) = 2
    /\ batch[1].value = ExtGo /\ batch[2].value = ExtTheme
    /\ commands[1].icon = PathStr("/", <<"ext", "acme", "icons", "go.png">>)
    /\ commands[2].icon = IconObj(PathStr("/", <<"ext", "shared", "dark.svg">>),
                                  PathStr("/", <<"ext", "beta", "light.svg">>))

StringOrFilter(when) == when.t = "string" \/ (when.t = "object")

WellFormedWhen(when) ==
    \/ StringOrFilter(when)
    \/ /\ when.t = "array"
       /\ when.items # <<>>
       /\ \A k \in 1..Len(when.items) : StringOrFilter(when.items[k])

\* C9 as stated: every 'when' present on a registry entry is a string, a
\* ResourceFilter-like value or a non-empty sequence of those, a candidate with
\* a 'when' of any other shape having been rejected by isValidCommand.
C9_WhenWellFormed ==
    \A k \in 1..Len(commands) :
        commands[k].when = Undefined \/ WellFormedWhen(commands[k].when)

(***************************************************************************)
(* CommandAction.  A promise is pending, fulfilled with a value or         *)
(* rejected with a reason; the collaborators settle theirs at any time.    *)
(***************************************************************************)
Pending == [state |-> "pending", value |-> ""]
Fulfilled(value) == [state |-> "fulfilled", value |-> value]
Rejected(reason) == [state |-> "rejected", value |-> reason]
NotCalled == [state |-> "none", value |-> ""]

ActionCommands == {FooBar, normalizeIcon(ExtGo, Folder(1))}
Arguments == {<<>>, <<"resource", "position">>}
ActivationFailures == {"activation failed"}
CommandResults == {"done", "cancelled"}
CommandFailures == {"command failed"}

\* constructor: super(command.command, command.title), the order, the event
CommandAction(command) ==
    [t |-> "object", command |-> command, id |-> command.command.s,
     label |-> command.title.s, order |-> "Number.MAX_VALUE",
     activationEvent |-> "onCommand:" \o command.command.s]

InitAction ==
    /\ InitRegistry
    /\ IdleValidation
    /\ action \in {CommandAction(command) : command \in ActionCommands}
    /\ inv = <<>>
    /\ activations = <<>>
    /\ dispatches = <<>>

\* _actionCallback(...args) up to the call of then: activateByEvent is called,
\* and what the callback returns is the promise then returns
Invoke(args) ==
    /\ Len(inv) < MaxInvocations
    /\ activations' = Append(activations, [inv |-> Len(inv) + 1, event |-> action.activationEvent])
    /\ inv' = Append(inv, [args |-> args, activation |-> Pending, executed |-> NotCalled,
                           returned |-> Pending])
    /\ UNCHANGED <<action, dispatches, registryVars, validationVars>>

\* the extension service settles the promise of activateByEvent
ActivationSucceeds(i) ==
    /\ inv[i].activation = Pending
    /\ inv' = [inv EXCEPT ![i].activation = Fulfilled("")]
    /\ UNCHANGED <<action, activations, dispatches, registryVars, validationVars>>

ActivationFails(i, reason) ==
    /\ inv[i].activation = Pending
    /\ inv' = [inv EXCEPT ![i].activation = Rejected(reason)]
    /\ UNCHANGED <<action, activations, dispatches, registryVars, validationVars>>

\* executeCommand(command.command) without the invocation's arguments
executeCommandCallNoArgs(i) == [inv |-> i, id |-> action.command.command.s, args |-> <<>>]

\* the call the then-callback makes: executeCommand(command.command, ...args)
executeCommandCall(i) == [inv |-> i, id |-> action.command.command.s, args |-> inv[i].args]

\* the callback given to then as both handlers: it also runs on a rejection
ThenCallbackOnSettled(i) ==
    /\ inv[i].activation.state \in {"fulfilled", "rejected"}
    /\ inv[i].executed = NotCalled
    /\ dispatches' = Append(dispatches, [inv |-> i, id |-> action.command.command.s,
                                         args |-> inv[i].args])
    /\ inv' = [inv EXCEPT ![i].executed = Pending]
    /\ UNCHANGED <<action, activations, registryVars, validationVars>>

\* the then-callback of invocation i: it runs once the activation is fulfilled
ThenCallback(i) ==
    /\ inv[i].activation.state = "fulfilled"
    /\ inv[i].executed = NotCalled
    /\ dispatches' = Append(dispatches, executeCommandCall(i))
    /\ inv' = [inv EXCEPT ![i].executed = Pending]
    /\ UNCHANGED <<action, activations, registryVars, validationVars>>

\* then without a rejection handler: the rejection passes to the returned promise
ActivationRejectionPasses(i) ==
    /\ inv[i].activation.state = "rejected"
    /\ inv[i].returned = Pending
    /\ inv' = [inv EXCEPT ![i].returned = inv[i].activation]
    /\ UNCHANGED <<action, activations, dispatches, registryVars, validationVars>>

\* the keybinding service settles the promise of executeCommand
CommandSettles(i, settled) ==
    /\ inv[i].executed = Pending
    /\ inv' = [inv EXCEPT ![i].executed = settled]
    /\ UNCHANGED <<action, activations, dispatches, registryVars, validationVars>>

\* the returned promise follows the promise the then-callback returned
ReturnedFollows(i) ==
    /\ inv[i].executed.state \in {"fulfilled", "rejected"}
    /\ inv[i].returned = Pending
    /\ inv' = [inv EXCEPT ![i].returned = inv[i].executed]
    /\ UNCHANGED <<action, activations, dispatches, registryVars, validationVars>>

NextAction ==
    \/ \E args \in Arguments : Invoke(args)
    \/ \E i \in 1..Len(inv) : ActivationSucceeds(i)
    \/ \E i \in 1..Len(inv), reason \in ActivationFailures : ActivationFails(i, reason)
    \/ \E i \in 1..Len(inv) : ThenCallback(i)
    \/ \E i \in 1..Len(inv) : ActivationRejectionPasses(i)
    \/ \E i \in 1..Len(inv) :
          \E settled \in {Fulfilled(r) : r \in CommandResults}
                         \cup {Rejected(e) : e \in CommandFailures} : CommandSettles(i, settled)
    \/ \E i \in 1..Len(inv) : ReturnedFollows(i)

SpecAction == InitAction /\ [][NextAction]_vars

\* A settled promise runs the callbacks then registered on it: the then-callback
\* and the settling of the returned promise are not postponed for ever.  Nothing
\* makes the collaborators settle their promises: an activation or a command
\* may hang.
FairSpecAction ==
    /\ SpecAction
    /\ \A i \in 1..MaxInvocations :
          /\ WF_vars(i <= Len(inv) /\ ThenCallback(i))
          /\ WF_vars(i <= Len(inv) /\ ActivationRejectionPasses(i))
          /\ WF_vars(i <= Len(inv) /\ ReturnedFollows(i))

(***************************************************************************)
(* Properties of CommandAction (specification SpecAction).                 *)
(***************************************************************************)
\* the calls of executeCommand made for invocation i
DispatchesOf(i) == {k \in 1..Len(dispatches) : dispatches[k].inv = i}

Settled(promise) == promise.state \in {"fulfilled", "rejected"}

NoDispatchAfterFailure ==
    \A i \in 1..Len(inv) :
        inv[i].activation.state = "rejected" =>
            /\ DispatchesOf(i) = {}
            /\ inv[i].executed = NotCalled
            /\ inv[i].returned \in {Pending, inv[i].activation}

\* C3: when the activation of onCommand:<command id> fails for an invocation,
\* executeCommand is never called for that invocation and the promise the
\* invocation returned is never fulfilled; that promise fails: it ends up
\* rejected, with the activation's failure.
C3_ActivationFailureShortCircuits ==
    /\ []NoDispatchAfterFailure
    /\ \A i \in 1..MaxInvocations :
          (i <= Len(inv) /\ inv[i].activation.state = "rejected")
              ~> (i <= Len(inv) /\ inv[i].returned = inv[i].activation)

\* an invocation failed with its activation's failure while another one of the
\* same action was dispatched
C3_Witness ==
    \E i, j \in 1..Len(inv) :
        /\ inv[i].activation.state = "rejected"
        /\ inv[i].returned = inv[i].activation
        /\ DispatchesOf(j) # {}

DispatchOnceAfterActivation ==
    /\ Len(activations) = Len(inv)
    /\ \A i \in 1..Len(inv) :
          /\ activations[i] = [inv |-> i, event |-> "onCommand:" \o action.id]
          /\ Cardinality(DispatchesOf(i)) <= 1
          /\ \A k \in DispatchesOf(i) :
                /\ inv[i].activation.state = "fulfilled"
                /\ dispatches[k].id = action.id
                /\ activations[i].event = "onCommand:" \o dispatches[k].id
                /\ dispatches[k].args = inv[i].args
          /\ (inv[i].executed # NotCalled) <=> (Cardinality(DispatchesOf(i)) = 1)
          /\ Settled(inv[i].returned) =>
                \/ inv[i].activation.state = "rejected"
                \/ /\ inv[i].activation.state = "fulfilled"
                   /\ Cardinality(DispatchesOf(i)) = 1
                   /\ inv[i].returned = inv[i].executed

\* C4: executeCommand is never called for an invocation before that invocation's
\* activation of onCommand:<command id> has completed with success, and at most
\* once, with the wrapped command's id and the arguments of that invocation;
\* once the activation has succeeded it is called, exactly once; and the
\* outcome of the invocation, once executeCommand has settled, is the outcome
\* of executeCommand.
C4_DispatchAfterActivation ==
    /\ []DispatchOnceAfterActivation
    /\ \A i \in 1..MaxInvocations :
          /\ (i <= Len(inv) /\ inv[i].activation.state = "fulfilled")
                ~> (i <= Len(inv) /\ Cardinality(DispatchesOf(i)) = 1)
          /\ (i <= Len(inv) /\ Settled(inv[i].executed))
                ~> (i <= Len(inv) /\ inv[i].returned = inv[i].executed)

\* two invocations in flight at once, with different arguments, dispatched in
\* the reverse of the order they were made in, one resolved and one failed by
\* the dispatcher
C4_Witness ==
    /\ Len(inv) = 2 /\ Len(dispatches) = 2
    /\ inv[1].args # inv[2].args /\ inv[1].args # <<>>
    /\ dispatches[1].inv = 2
    /\ inv[1].returned.state = "fulfilled"
    /\ inv[2].returned.state = "rejected"

(***************************************************************************)
(* The validators of 'where' and 'when', applied to a value.               *)
(***************************************************************************)
Scalars ==
    {Undefined, Null, Str("typescript"), Str("editor/primary"), Str("explorer/context"),
     Num(42), Bool(TRUE), Filter("typescript")}

\* the elements of an array: a scalar, or an array of at most one scalar
Items == Scalars \cup {Arr(<<>>)} \cup {Arr(<<v>>) : v \in Scalars}

Values == Scalars \cup {Arr(items) : items \in UNION {[1..n -> Items] : n \in 0..MaxItems}}

InitValidation ==
    /\ InitRegistry
    /\ IdleAction
    /\ arg \in Values
    /\ fn = "none"
    /\ ret = Ret(FALSE, <<>>)

CallIsValidWhen ==
    /\ fn = "none"
    /\ fn' = "isValidWhen"
    /\ ret' = isValidWhen(arg)
    /\ UNCHANGED <<arg, registryVars, actionVars>>

CallIsValidWhere ==
    /\ fn = "none"
    /\ fn' = "isValidWhere"
    /\ ret' = isValidWhere(arg)
    /\ UNCHANGED <<arg, registryVars, actionVars>>

NextValidation == CallIsValidWhen \/ CallIsValidWhere

SpecValidation == InitValidation /\ [][NextValidation]_vars

(***************************************************************************)
(* Properties of isValidWhen (specification SpecValidation).               *)
(***************************************************************************)
\* a string, or a structured value (whatever typeof calls an object, an array apart)
StringOrStructured(when) == typeof(when) = "string" \/ (typeof(when) = "object" /\ ~isArray(when))

RECURSIVE ValidWhen(_)
ValidWhen(when) ==
    IF isArray(when)
    THEN \A k \in 1..Len(when.items) : ValidWhen(when.items[k])
    ELSE StringOrStructured(when)

\* the values the wording of C10 leaves no doubt about: no null (an object to
\* typeof, yet no filter) and no empty sequence in them
RECURSIVE NoNullNoEmpty(_)
NoNullNoEmpty(when) ==
    IF isArray(when)
    THEN when.items # <<>> /\ \A k \in 1..Len(when.items) : NoNullNoEmpty(when.items[k])
    ELSE when # Null

\* C10 as stated: isValidWhen returns true and reports nothing exactly when
\* 'when' is a string, a structured filter-like value, or a sequence whose every
\* element validates; otherwise it returns false and reports exactly one
\* mandatory-when error.
C10_WhenValidatedRecursively ==
    (fn = "isValidWhen" /\ NoNullNoEmpty(arg)) =>
        ret = IF ValidWhen(arg) THEN Ret(TRUE, <<>>) ELSE Ret(FALSE, <<MsgRequireFilter>>)

=============================================================================
